---- MODULE Spec2Model ----
(***************************************************************************)
(* The Pretenst importers for Blender: blender_import_json.py (JSON) and   *)
(* blender_import_pretenst.py (CSV), with the CSV helpers they share with  *)
(* pretenst_util.py.                                                       *)
(*                                                                         *)
(* Numbers are whole numbers: coordinates are even integers (so that the   *)
(* midpoint is exact), spans have a whole length and stiffness is a        *)
(* perfect square (so that both square roots are exact).  Text cells are   *)
(* sequences of one-character strings.  An operation that can raise        *)
(* returns [error, value]: error is "none" or the Python exception.        *)
(***************************************************************************)
EXTENDS Integers, Sequences, FiniteSets, TLC

VARIABLES
    source,            \* the file handed to load: [format, joints, intervals]
    loaded,            \* what load returned or raised for source
    intv,              \* the Interval handed to create_interval_node
    prototype_scene,   \* bpy.data.scenes["Prototype"].objects: name -> object
    node_json,         \* what the JSON importer's create_interval_node gave
    node_csv,          \* what the CSV importer's create_interval_node gave
    scene,             \* bpy.data.scenes["Scene"].collection.children
    report,            \* the outcome of the last import attempt
    interval_csv,      \* one row of intervals.csv handed to the row decoder
    decoded            \* what interval_csv_to_dataclass gave for that row

vars == <<source, loaded, intv, prototype_scene, node_json, node_csv,
          scene, report, interval_csv, decoded>>

\* The value of a variable a specification does not use, or has not set yet.
Idle == [error |-> "idle", value |-> <<>>]

\* ------------------------------------------------------------------ bounds

MaxJoints == 2
MaxIntervals == 2
MaxIndex == 12

\* ----------------------------------------------------------------- results

Ok(v) == [error |-> "none", value |-> v]
Raise(e) == [error |-> e, value |-> <<>>]
IsOk(r) == r.error = "none"

\* ------------------------------------------------------------ Python text

Digits == <<"0", "1", "2", "3", "4", "5", "6", "7", "8", "9">>

IsDigit(c) == \E d \in 1..10 : Digits[d] = c

DigitVal(c) == (CHOOSE d \in 1..10 : Digits[d] = c) - 1

\* str.replace(old, new) for a one-character old; new is a text (maybe empty).
RECURSIVE replace(_, _, _)
replace(s, old, new) ==
    IF s = <<>> THEN <<>>
    ELSE (IF Head(s) = old THEN new ELSE <<Head(s)>>) \o replace(Tail(s), old, new)

\* str.split(sep) for a one-character sep: the parts between the separators.
RECURSIVE split(_, _)
split(s, sep) ==
    IF \A k \in 1..Len(s) : s[k] # sep THEN <<s>>
    ELSE LET k == CHOOSE j \in 1..Len(s) :
                      s[j] = sep /\ \A h \in 1..(j - 1) : s[h] # sep
         IN <<SubSeq(s, 1, k - 1)>> \o split(SubSeq(s, k + 1, Len(s)), sep)

RECURSIVE DigitsValue(_)
DigitsValue(s) ==
    IF s = <<>> THEN 0
    ELSE 10 * DigitsValue(SubSeq(s, 1, Len(s) - 1)) + DigitVal(s[Len(s)])

AllDigits(s) == s # <<>> /\ \A k \in 1..Len(s) : IsDigit(s[k])

\* int(s): an optional sign and decimal digits, ValueError otherwise.
int(s) ==
    IF AllDigits(s) THEN Ok(DigitsValue(s))
    ELSE IF s # <<>> /\ s[1] = "-" /\ AllDigits(Tail(s)) THEN Ok(0 - DigitsValue(Tail(s)))
    ELSE IF s # <<>> /\ s[1] = "+" /\ AllDigits(Tail(s)) THEN Ok(DigitsValue(Tail(s)))
    ELSE Raise("ValueError")

\* float(s) on the texts whose value is a whole number: digits, then
\* optionally a point and zeros.  Any other text is a ValueError here.
float(s) ==
    LET parts == split(s, ".") IN
    IF Len(parts) = 1 THEN int(s)
    ELSE IF Len(parts) = 2 /\ IsOk(int(parts[1]))
            /\ \A k \in 1..Len(parts[2]) : parts[2][k] = "0"
         THEN int(parts[1])
    ELSE Raise("ValueError")

float_comma(s) == float(replace(s, ",", <<".">>))

\* --------------------------------------------------------------- the dicts

\* joints_dict = {joint.index: joint for joint in joints}: a later joint
\* replaces an earlier one under the same key.
RECURSIVE joints_dict_first(_)
joints_dict_first(joints) ==
    IF joints = <<>> THEN <<>>
    ELSE LET j == Head(joints) IN (j.index :> j) @@ joints_dict_first(Tail(joints))

RECURSIVE joints_dict_of(_)
joints_dict_of(joints) ==
    IF joints = <<>> THEN <<>>
    ELSE LET j == joints[Len(joints)]
         IN (j.index :> j) @@ joints_dict_of(SubSeq(joints, 1, Len(joints) - 1))

\* d.get(key, some joint): no KeyError.
getitem_default(d, key) ==
    IF key \in DOMAIN d THEN Ok(d[key])
    ELSE Ok([index |-> key, co |-> <<0, 0, 0>>])

\* d[key]
getitem(d, key) ==
    IF key \in DOMAIN d THEN Ok(d[key]) ELSE Raise("KeyError")

\* A list comprehension over rows whose element results are rs: the first
\* exception ends it, otherwise the list of the values.
first_raise(rs) ==
    IF \A k \in 1..Len(rs) : IsOk(rs[k])
    THEN Ok([k \in 1..Len(rs) |-> rs[k].value])
    ELSE rs[CHOOSE k \in 1..Len(rs) :
                ~IsOk(rs[k]) /\ \A h \in 1..(k - 1) : IsOk(rs[h])]

\* ------------------------------------------------- blender_import_json.py

joint_dict_to_dataclass(joint_dict) ==
    [index |-> joint_dict.index,
     co |-> <<joint_dict.x, joint_dict.y, joint_dict.z>>]

\* The row's own "index" field, were it read.
interval_dict_to_dataclass_stray(index, interval_dict, joints_dict) ==
    LET joints == interval_dict.joints
        alpha == getitem(joints_dict, joints[1])
        omega == getitem(joints_dict, joints[2])
    IN IF ~IsOk(alpha) THEN alpha
       ELSE IF ~IsOk(omega) THEN omega
       ELSE Ok([index |-> interval_dict.index,
                alpha |-> alpha.value,
                omega |-> omega.value,
                type |-> interval_dict.type,
                stiffness |-> interval_dict.stiffness])

interval_dict_to_dataclass(index, interval_dict, joints_dict) ==
    LET joints == interval_dict.joints
        alpha == getitem(joints_dict, joints[1])
        omega == getitem(joints_dict, joints[2])
    IN IF ~IsOk(alpha) THEN alpha
       ELSE IF ~IsOk(omega) THEN omega
       ELSE Ok([index |-> index,
                alpha |-> alpha.value,
                omega |-> omega.value,
                type |-> interval_dict.type,
                stiffness |-> interval_dict.stiffness])

\* Returns (intervals, joints), or raises.
load_pretenst_from_json(fabric) ==
    LET joints == [k \in 1..Len(fabric.joints) |->
                       joint_dict_to_dataclass(fabric.joints[k])]
        joints_dict == joints_dict_of(joints)
        intervals == first_raise(
            [k \in 1..Len(fabric.intervals) |->
                 interval_dict_to_dataclass(k - 1, fabric.intervals[k], joints_dict)])
    IN IF ~IsOk(intervals) THEN intervals
       ELSE Ok([intervals |-> intervals.value, joints |-> joints])

\* --------------------------------------------- blender_import_pretenst.py

joint_csv_to_dataclass(joint_csv) ==
    LET x == float_comma(joint_csv.x)
        y == float_comma(joint_csv.y)
        z == float_comma(joint_csv.z)
        index == int(joint_csv.index)
    IN IF ~IsOk(x) THEN x
       ELSE IF ~IsOk(y) THEN y
       ELSE IF ~IsOk(z) THEN z
       ELSE IF ~IsOk(index) THEN index
       ELSE Ok([index |-> index.value, co |-> <<x.value, y.value, z.value>>])

\* The joints cell put through the decimal normalisation of the numeric cells.
joints_cell_comma(cell) ==
    replace(replace(replace(cell, ",", <<".">>), "=", <<>>), "\"", <<>>)

\* interval_csv['joints'].replace('=', '').replace('"', '')
joints_cell(cell) ==
    replace(replace(cell, "=", <<>>), "\"", <<>>)

interval_csv_to_dataclass(index, row, joints_dict) ==
    LET iv_joints == joints_cell(row.joints)
        idx == split(iv_joints, ",")
    IN IF Len(idx) # 2 THEN Raise("ValueError")
       ELSE
       LET alpha_idx == int(idx[1])
           alpha == IF IsOk(alpha_idx) THEN getitem(joints_dict, alpha_idx.value)
                    ELSE alpha_idx
           omega_idx == int(idx[2])
           omega == IF IsOk(omega_idx) THEN getitem(joints_dict, omega_idx.value)
                    ELSE omega_idx
           elasticity == float_comma(row.elasticity)
       IN IF ~IsOk(alpha) THEN alpha
          ELSE IF ~IsOk(omega) THEN omega
          ELSE IF ~IsOk(elasticity) THEN elasticity
          ELSE Ok([index |-> index,
                   alpha |-> alpha.value,
                   omega |-> omega.value,
                   type |-> row.type,
                   elasticity |-> elasticity.value])

\* Returns (intervals, joints), or raises.
load_pretenst_from_csv(dir) ==
    LET joints == first_raise(
            [k \in 1..Len(dir.joints) |-> joint_csv_to_dataclass(dir.joints[k])])
    IN IF ~IsOk(joints) THEN joints
       ELSE
       LET joints_dict == joints_dict_of(joints.value)
           intervals == first_raise(
               [k \in 1..Len(dir.intervals) |->
                    interval_csv_to_dataclass(k - 1, dir.intervals[k], joints_dict)])
       IN IF ~IsOk(intervals) THEN intervals
          ELSE Ok([intervals |-> intervals.value, joints |-> joints.value])

\* -------------------------------------------------------- pretenst_util.py

\* pretenst_util's Interval carries no index.
util_interval_csv_to_dataclass(row, joints_dict) ==
    LET iv_joints == joints_cell(row.joints)
        idx == split(iv_joints, ",")
    IN IF Len(idx) # 2 THEN Raise("ValueError")
       ELSE
       LET alpha_idx == int(idx[1])
           alpha == IF IsOk(alpha_idx) THEN getitem(joints_dict, alpha_idx.value)
                    ELSE alpha_idx
           omega_idx == int(idx[2])
           omega == IF IsOk(omega_idx) THEN getitem(joints_dict, omega_idx.value)
                    ELSE omega_idx
           elasticity == float_comma(row.elasticity)
       IN IF ~IsOk(alpha) THEN alpha
          ELSE IF ~IsOk(omega) THEN omega
          ELSE IF ~IsOk(elasticity) THEN elasticity
          ELSE Ok([alpha |-> alpha.value,
                   omega |-> omega.value,
                   type |-> row.type,
                   elasticity |-> elasticity.value])

\* ------------------------------------------------- mathutils.Vector, math

Add(u, v) == <<u[1] + v[1], u[2] + v[2], u[3] + v[3]>>
Sub(u, v) == <<u[1] - v[1], u[2] - v[2], u[3] - v[3]>>
Times(k, v) == <<k * v[1], k * v[2], k * v[3]>>
Dot(u, v) == u[1] * v[1] + u[2] * v[2] + u[3] * v[3]
Cross(u, v) ==
    <<u[2] * v[3] - u[3] * v[2], u[3] * v[1] - u[1] * v[3], u[1] * v[2] - u[2] * v[1]>>

\* math.sqrt on the perfect squares; a negative argument is a ValueError
\* ("math domain error").
sqrt(n) ==
    IF n < 0 THEN Raise("ValueError")
    ELSE Ok(CHOOSE r \in 0..n : r * r = n)

\* Vector.length
length(v) == sqrt(Dot(v, v)).value

\* a.lerp(b, num/den), on coordinates the factor divides exactly.
lerp(a, b, num, den) ==
    <<a[1] + ((b[1] - a[1]) * num) \div den,
      a[2] + ((b[2] - a[2]) * num) \div den,
      a[3] + ((b[3] - a[3]) * num) \div den>>

Abs(n) == IF n < 0 THEN 0 - n ELSE n

RECURSIVE Gcd(_, _)
Gcd(a, b) == IF b = 0 THEN a ELSE Gcd(b, a % b)

\* A quaternion up to its (positive) norm: the integer vector <<w, x, y, z>>
\* divided by the greatest common divisor of its components.
Ray(q) ==
    LET g == Gcd(Gcd(Abs(q[1]), Abs(q[2])), Gcd(Abs(q[3]), Abs(q[4])))
    IN IF g = 0 THEN q ELSE <<q[1] \div g, q[2] \div g, q[3] \div g, q[4] \div g>>

\* A vector orthogonal to an axis-aligned unit vector (mathutils' ortho_v3_v3).
Ortho(u) ==
    IF u[1] # 0 THEN <<0 - u[2] - u[3], u[1], u[1]>>
    ELSE IF u[2] # 0 THEN <<u[2], 0 - u[1] - u[3], u[2]>>
    ELSE <<u[3], u[3], 0 - u[1] - u[2]>>

\* u.rotation_difference(v) for a unit vector u: both are normalised (the
\* zero vector stays zero) and the shortest-arc quaternion is returned, as
\* the Ray <<|v| + u.v, u x v>>.  Parallel vectors give the identity;
\* opposed ones, and a zero v, a half turn about Ortho(u).  It never raises.
rotation_difference(u, v) ==
    LET c == Cross(u, v)
        d == Dot(u, v)
    IN IF c # <<0, 0, 0>> THEN Ray(<<length(v) + d, c[1], c[2], c[3]>>)
       ELSE IF d > 0 THEN <<1, 0, 0, 0>>
       ELSE LET o == Ortho(u) IN Ray(<<0, o[1], o[2], o[3]>>)

\* ------------------------------------------------------- the placement

\* The visualisation constant of the diameter: sqrt(stiffness) * 200.
DiameterFactor == 200

\* A track axis on the negative side, were it accepted.
track_axis_to_vector_signed(track_axis) ==
    CASE track_axis = "POS_X" -> Ok(<<1, 0, 0>>)
      [] track_axis = "POS_Y" -> Ok(<<0, 1, 0>>)
      [] track_axis = "POS_Z" -> Ok(<<0, 0, 1>>)
      [] track_axis = "NEG_X" -> Ok(<<-1, 0, 0>>)
      [] track_axis = "NEG_Y" -> Ok(<<0, -1, 0>>)
      [] track_axis = "NEG_Z" -> Ok(<<0, 0, -1>>)
      [] OTHER -> Raise("ValueError")

track_axis_to_vector(track_axis) ==
    IF track_axis = "POS_X" THEN Ok(<<1, 0, 0>>)
    ELSE IF track_axis = "POS_Y" THEN Ok(<<0, 1, 0>>)
    ELSE IF track_axis = "POS_Z" THEN Ok(<<0, 0, 1>>)
    ELSE Raise("ValueError")

\* The name f"I{index} {role} (J{alpha.index} ~ J{omega.index})"; the role
\* is not modelled.
IntervalName(i) == <<"I", i.index, i.alpha.index, i.omega.index>>

\* The diameter on every axis, the track axis included.
scale_delta_mixed(diameter_coeff, track_axis, intv_length) ==
    Add(Times(diameter_coeff, <<1, 1, 1>>), Times(intv_length, track_axis))

\* scale_delta = diameter_coeff * (Vector((1, 1, 1)) - track_axis)
\*             + track_axis * intv_length
scale_delta_of(diameter_coeff, track_axis, intv_length) ==
    Add(Times(diameter_coeff, Sub(<<1, 1, 1>>, track_axis)),
        Times(intv_length, track_axis))

\* intv_node.scale.x *= scale_delta.x, and y, and z.
scaled(scale, scale_delta) ==
    <<scale[1] * scale_delta[1], scale[2] * scale_delta[2], scale[3] * scale_delta[3]>>

\* blender_import_json.py
create_interval_node_json(i, objects) ==
    IF i.type \notin DOMAIN objects THEN Raise("KeyError")
    ELSE
    LET intv_node == objects[i.type]
        intv_arrow == Sub(i.omega.co, i.alpha.co)
        track_axis == track_axis_to_vector(intv_node.track_axis)
        diameter_root == sqrt(i.stiffness)
    IN IF ~IsOk(track_axis) THEN track_axis
       ELSE IF ~IsOk(diameter_root) THEN diameter_root
       ELSE
       LET diameter_coeff == diameter_root.value * DiameterFactor
           scale_delta == scale_delta_of(diameter_coeff, track_axis.value,
                                         length(intv_arrow))
       IN Ok([name |-> IntervalName(i),
              location |-> lerp(i.alpha.co, i.omega.co, 1, 2),
              rotation_mode |-> "QUATERNION",
              rotation_quaternion |-> rotation_difference(track_axis.value, intv_arrow),
              scale |-> scaled(intv_node.scale, scale_delta)])

\* The inset taken off every interval, whatever its type.
intv_length_inset_all(i, objects, span) ==
    IF "Joint" \notin DOMAIN objects THEN Raise("KeyError")
    ELSE Ok(span - 2 * objects["Joint"].scale[1])

\* intv_length = intv_arrow.length, less 2 * joint_radius for a "Push".
intv_length_of(i, objects, span) ==
    IF i.type = "Push"
    THEN IF "Joint" \notin DOMAIN objects THEN Raise("KeyError")
         ELSE Ok(span - 2 * objects["Joint"].scale[1])
    ELSE Ok(span)

\* blender_import_pretenst.py
create_interval_node_csv(i, objects) ==
    IF i.type \notin DOMAIN objects THEN Raise("KeyError")
    ELSE
    LET intv_node == objects[i.type]
        intv_arrow == Sub(i.omega.co, i.alpha.co)
        track_axis == track_axis_to_vector(intv_node.track_axis)
        diameter_root == sqrt(i.elasticity)
        intv_length == intv_length_of(i, objects, length(intv_arrow))
    IN IF ~IsOk(track_axis) THEN track_axis
       ELSE IF ~IsOk(diameter_root) THEN diameter_root
       ELSE IF ~IsOk(intv_length) THEN intv_length
       ELSE
       LET diameter_coeff == diameter_root.value * DiameterFactor
           scale_delta == scale_delta_of(diameter_coeff, track_axis.value,
                                         intv_length.value)
       IN Ok([name |-> IntervalName(i),
              location |-> lerp(i.alpha.co, i.omega.co, 1, 2),
              rotation_mode |-> "QUATERNION",
              rotation_quaternion |-> rotation_difference(track_axis.value, intv_arrow),
              scale |-> scaled(intv_node.scale, scale_delta)])

\* The same in both importers.  The copy keeps the prototype's rotation mode
\* and rotation, which the model does not carry.
create_joint_node(jt, objects) ==
    IF "Joint" \notin DOMAIN objects THEN Raise("KeyError")
    ELSE Ok([name |-> <<"J", jt.index>>,
             location |-> jt.co,
             scale |-> objects["Joint"].scale])

\* ------------------------------------------------------------ the inputs

\* All sequences over S of length at most n.
SeqsUpTo(S, n) == UNION {[1..k -> S] : k \in 0..n}

\* The decimal text of an integer (what a writer of the CSV puts in a cell).
RECURSIVE NatText(_)
NatText(n) ==
    IF n < 10 THEN <<Digits[n + 1]>> ELSE NatText(n \div 10) \o <<Digits[(n % 10) + 1]>>

IntText(n) == IF n < 0 THEN <<"-">> \o NatText(0 - n) ELSE NatText(n)

\* The three spellings of the joints cell of intervals.csv.
Encodings == {"formula", "quoted", "plain"}

JointsCell(a, b, enc) ==
    LET pair == IntText(a) \o <<",">> \o IntText(b) IN
    CASE enc = "formula" -> <<"=", "\"">> \o pair \o <<"\"">>
      [] enc = "quoted" -> <<"\"">> \o pair \o <<"\"">>
      [] enc = "plain" -> pair

\* Indexes the joint rows carry, and indexes the interval rows refer to: 9 is
\* the index of no joint row.
JointIndexes == {1, 2}
RefPairs == {<<1, 2>>, <<2, 1>>, <<2, 9>>, <<9, 1>>, <<1, 1>>}
LoadCoords == {<<0, 0, 0>>, <<6, 8, 0>>}

\* The "index" field an interval row may carry next to the fields that are read.
StrayIndexes == {0, 7}

JsonJointRows ==
    {[index |-> i, x |-> c[1], y |-> c[2], z |-> c[3]] :
         i \in JointIndexes, c \in LoadCoords}

JsonIntervalRows ==
    {[joints |-> p, type |-> "Push", stiffness |-> 4, index |-> s] :
         p \in RefPairs, s \in StrayIndexes}

JsonFiles ==
    {[format |-> "json", joints |-> js, intervals |-> is] :
         js \in SeqsUpTo(JsonJointRows, MaxJoints),
         is \in SeqsUpTo(JsonIntervalRows, MaxIntervals)}

\* A whole number as a numeric cell: 6 is written 6,0 (decimal comma).
NumberCell(n) == IF n = 6 THEN <<"6", ",", "0">> ELSE IntText(n)

CsvJointRows ==
    {[index |-> IntText(i), x |-> NumberCell(c[1]), y |-> NumberCell(c[2]),
      z |-> NumberCell(c[3])] :
         i \in JointIndexes, c \in LoadCoords}

CsvIntervalRows(enc) ==
    {[joints |-> JointsCell(p[1], p[2], enc), type |-> "Push",
      elasticity |-> <<"4", ",", "0">>, index |-> <<"7">>] :
         p \in RefPairs}

CsvFiles ==
    {[format |-> "csv", joints |-> js, intervals |-> is] :
         js \in SeqsUpTo(CsvJointRows, MaxJoints),
         is \in UNION {SeqsUpTo(CsvIntervalRows(enc), MaxIntervals) : enc \in Encodings}}

\* ------------------------------------------------- specification: loading

InitLoad ==
    /\ (source \in JsonFiles \/ source \in CsvFiles)
    /\ loaded = Idle
    /\ intv = Idle /\ prototype_scene = Idle /\ node_json = Idle /\ node_csv = Idle
    /\ scene = Idle /\ report = Idle /\ interval_csv = Idle /\ decoded = Idle

LoadJson ==
    /\ source.format = "json"
    /\ loaded.error = "idle"
    /\ loaded' = load_pretenst_from_json(source)
    /\ UNCHANGED <<source, intv, prototype_scene, node_json, node_csv, scene,
                   report, interval_csv, decoded>>

LoadCsv ==
    /\ source.format = "csv"
    /\ loaded.error = "idle"
    /\ loaded' = load_pretenst_from_csv(source)
    /\ UNCHANGED <<source, intv, prototype_scene, node_json, node_csv, scene,
                   report, interval_csv, decoded>>

NextLoad == LoadJson \/ LoadCsv

SpecLoad == InitLoad /\ [][NextLoad]_vars

\* What the rows of source say, read off the inputs' construction and not
\* through the importers' decoders.
JointIndexOf(row) ==
    IF source.format = "json" THEN row.index
    ELSE CHOOSE i \in JointIndexes : IntText(i) = row.index

JointCoOf(row) ==
    IF source.format = "json" THEN <<row.x, row.y, row.z>>
    ELSE CHOOSE c \in LoadCoords :
             /\ NumberCell(c[1]) = row.x
             /\ NumberCell(c[2]) = row.y
             /\ NumberCell(c[3]) = row.z

RefOf(row) ==
    IF source.format = "json" THEN row.joints
    ELSE CHOOSE p \in RefPairs :
             \E enc \in Encodings : JointsCell(p[1], p[2], enc) = row.joints

RowIndexes == {JointIndexOf(source.joints[k]) : k \in 1..Len(source.joints)}

Dangling ==
    \E k \in 1..Len(source.intervals), e \in 1..2 :
        RefOf(source.intervals[k])[e] \notin RowIndexes

LoadDone == loaded.error # "idle"

\* The last joint row carrying index i, as a Joint.
LastJoint(i) ==
    LET k == CHOOSE j \in 1..Len(source.joints) :
                 /\ JointIndexOf(source.joints[j]) = i
                 /\ \A h \in (j + 1)..Len(source.joints) :
                        JointIndexOf(source.joints[h]) # i
    IN [index |-> i, co |-> JointCoOf(source.joints[k])]

\* C1: when some interval row refers to a joint index no joint row carries,
\* load raises KeyError (a lookup error) and returns nothing; and in every
\* structure load returns, each interval's alpha and omega are joints of the
\* returned joint sequence.
C1_ReferenceIntegrity ==
    LoadDone =>
        /\ Dangling => loaded.error = "KeyError" /\ loaded.value = <<>>
        /\ IsOk(loaded) =>
               \A k \in 1..Len(loaded.value.intervals) :
                   LET i == loaded.value.intervals[k]
                       js == loaded.value.joints
                   IN /\ \E j \in 1..Len(js) : js[j] = i.alpha
                      /\ \E j \in 1..Len(js) : js[j] = i.omega

\* A load that raised on the second interval row, the first being sound.
C1_Witness ==
    /\ LoadDone
    /\ loaded.error = "KeyError"
    /\ Len(source.joints) = 2
    /\ Len(source.intervals) = 2
    /\ \A e \in 1..2 : RefOf(source.intervals[1])[e] \in RowIndexes

\* C2: N interval rows give exactly N intervals, the k-th built from the k-th
\* row and indexed k (from 0), whatever "index" field the rows carry.
C2_IndexStability ==
    (LoadDone /\ IsOk(loaded)) =>
        /\ Len(loaded.value.intervals) = Len(source.intervals)
        /\ \A k \in 1..Len(source.intervals) :
               /\ loaded.value.intervals[k].index = k - 1
               /\ loaded.value.intervals[k].alpha.index = RefOf(source.intervals[k])[1]
               /\ loaded.value.intervals[k].omega.index = RefOf(source.intervals[k])[2]

\* Two different rows loaded from JSON, the first carrying a stray index 7
\* and the second a stray index 0.
C2_Witness ==
    /\ LoadDone /\ IsOk(loaded)
    /\ source.format = "json"
    /\ Len(loaded.value.intervals) = 2
    /\ source.intervals[1].index = 7
    /\ source.intervals[2].index = 0
    /\ source.intervals[1].joints # source.intervals[2].joints

\* C10: joint rows sharing an index do not make load fail; an interval that
\* refers to the index gets the joint of the last such row; the returned
\* joint sequence holds every row, duplicates included, in input order.
C10_LastJointWins ==
    LoadDone =>
        /\ ~Dangling => IsOk(loaded)
        /\ IsOk(loaded) =>
               /\ Len(loaded.value.joints) = Len(source.joints)
               /\ \A k \in 1..Len(source.joints) :
                      loaded.value.joints[k] =
                          [index |-> JointIndexOf(source.joints[k]),
                           co |-> JointCoOf(source.joints[k])]
               /\ \A k \in 1..Len(source.intervals) :
                      /\ loaded.value.intervals[k].alpha =
                             LastJoint(RefOf(source.intervals[k])[1])
                      /\ loaded.value.intervals[k].omega =
                             LastJoint(RefOf(source.intervals[k])[2])

\* Two joint rows with index 1 and different coordinates, and an interval
\* that refers to index 1.
C10_Witness ==
    /\ LoadDone /\ IsOk(loaded)
    /\ \E h, k \in 1..Len(source.joints) :
           /\ h < k
           /\ JointIndexOf(source.joints[h]) = JointIndexOf(source.joints[k])
           /\ JointCoOf(source.joints[h]) # JointCoOf(source.joints[k])
           /\ \E n \in 1..Len(source.intervals) :
                  RefOf(source.intervals[n])[1] = JointIndexOf(source.joints[k])

\* ------------------------------------- specification: decoding one row

DecodeIndexes == (0 - MaxIndex)..MaxIndex

\* A joints_dict that holds a joint for every index a row can name.
DecodeJoints == [i \in DecodeIndexes |-> [index |-> i, co |-> <<0, 0, 0>>]]

InitDecode ==
    /\ interval_csv \in
           {[joints |-> JointsCell(a, b, enc), type |-> "Pull",
             elasticity |-> <<"4", ",", "0">>] :
                a \in DecodeIndexes, b \in DecodeIndexes, enc \in Encodings}
    /\ decoded = Idle
    /\ source = Idle /\ loaded = Idle
    /\ intv = Idle /\ prototype_scene = Idle /\ node_json = Idle /\ node_csv = Idle
    /\ scene = Idle /\ report = Idle

DecodeImporter ==
    /\ decoded.error = "idle"
    /\ decoded' = interval_csv_to_dataclass(0, interval_csv, DecodeJoints)
    /\ UNCHANGED <<source, loaded, intv, prototype_scene, node_json, node_csv,
                   scene, report, interval_csv>>

DecodeUtil ==
    /\ decoded.error = "idle"
    /\ decoded' = util_interval_csv_to_dataclass(interval_csv, DecodeJoints)
    /\ UNCHANGED <<source, loaded, intv, prototype_scene, node_json, node_csv,
                   scene, report, interval_csv>>

NextDecode == DecodeImporter \/ DecodeUtil

SpecDecode == InitDecode /\ [][NextDecode]_vars

\* C9: the joints cell written ="a,b", "a,b" or a,b decodes to alpha = the
\* joint with index a and omega = the joint with index b; the cell is split
\* on its comma, which the decimal normalisation would have replaced.
C9_JointPairDecoding ==
    decoded.error # "idle" =>
        \A a \in DecodeIndexes, b \in DecodeIndexes, enc \in Encodings :
            JointsCell(a, b, enc) = interval_csv.joints =>
                /\ IsOk(decoded)
                /\ decoded.value.alpha = DecodeJoints[a]
                /\ decoded.value.omega = DecodeJoints[b]

\* The cell ="3,12" decoded.
C9_Witness ==
    /\ decoded.error # "idle"
    /\ interval_csv.joints = <<"=", "\"", "3", ",", "1", "2", "\"">>
    /\ IsOk(decoded)
    /\ decoded.value.alpha.index = 3
    /\ decoded.value.omega.index = 12

\* ------------------------------------- specification: placing an interval

\* Even coordinates, so that the midpoint is whole.
PlaceCoords == {<<x, y, z>> : x \in {0, 6}, y \in {0, 8}, z \in {0, 8}}

IsSquare(n) == \E r \in 0..n : r * r = n

\* Pairs of end points whose distance is a whole number (0 included).
PlaceSpans ==
    {p \in PlaceCoords \X PlaceCoords : IsSquare(Dot(Sub(p[2], p[1]), Sub(p[2], p[1])))}

\* "Bow" stands for a type tag the importers know nothing about.
Types == {"Push", "Pull", "Bow"}

\* Perfect squares, and a negative value.
Stiffnesses == {-1, 1, 4}

\* Object.track_axis is one of these six in Blender.
TrackAxes == {"POS_X", "POS_Y", "POS_Z", "NEG_X", "NEG_Y", "NEG_Z"}

BaselineScales == {<<1, 1, 1>>, <<2, 1, 3>>}

Prototypes == [track_axis : TrackAxes, scale : BaselineScales]

JointPrototypes ==
    {[track_axis |-> "POS_Y", scale |-> <<r, r, r>>] : r \in {1, 2}}

\* The prototype scenes that hold at most a prototype for type t and "Joint".
PrototypeScenes(t) ==
    LET for_type == {<<>>} \cup {(t :> o) : o \in Prototypes}
        for_joint == {<<>>} \cup {("Joint" :> o) : o \in JointPrototypes}
    IN {a @@ b : a \in for_type, b \in for_joint}

\* The CSV importer's Interval of the same data: stiffness is "elasticity".
CsvInterval(i) ==
    [index |-> i.index, alpha |-> i.alpha, omega |-> i.omega, type |-> i.type,
     elasticity |-> i.stiffness]

InitPlace ==
    /\ \E p \in PlaceSpans, t \in Types, s \in Stiffnesses :
           /\ intv = [index |-> 0,
                      alpha |-> [index |-> 1, co |-> p[1]],
                      omega |-> [index |-> 2, co |-> p[2]],
                      type |-> t,
                      stiffness |-> s]
           /\ prototype_scene \in PrototypeScenes(t)
    /\ node_json = Idle /\ node_csv = Idle
    /\ source = Idle /\ loaded = Idle
    /\ scene = Idle /\ report = Idle /\ interval_csv = Idle /\ decoded = Idle

PlaceJson ==
    /\ node_json.error = "idle"
    /\ node_json' = create_interval_node_json(intv, prototype_scene)
    /\ UNCHANGED <<source, loaded, intv, prototype_scene, node_csv, scene,
                   report, interval_csv, decoded>>

PlaceCsv ==
    /\ node_csv.error = "idle"
    /\ node_csv' = create_interval_node_csv(CsvInterval(intv), prototype_scene)
    /\ UNCHANGED <<source, loaded, intv, prototype_scene, node_json, scene,
                   report, interval_csv, decoded>>

NextPlace == PlaceJson \/ PlaceCsv

SpecPlace == InitPlace /\ [][NextPlace]_vars

\* What the claims about one placement are stated in.
AxisNumber(track_axis) ==
    CASE track_axis = "POS_X" -> 1
      [] track_axis = "POS_Y" -> 2
      [] track_axis = "POS_Z" -> 3

PositiveAxes == {"POS_X", "POS_Y", "POS_Z"}

SpanSquared ==
    (intv.omega.co[1] - intv.alpha.co[1]) * (intv.omega.co[1] - intv.alpha.co[1])
    + (intv.omega.co[2] - intv.alpha.co[2]) * (intv.omega.co[2] - intv.alpha.co[2])
    + (intv.omega.co[3] - intv.alpha.co[3]) * (intv.omega.co[3] - intv.alpha.co[3])

SpanLength == CHOOSE r \in 0..SpanSquared : r * r = SpanSquared

Root(n) == CHOOSE r \in 0..n : r * r = n

JsonPlaced == node_json.error # "idle" /\ IsOk(node_json)
CsvPlaced == node_csv.error # "idle" /\ IsOk(node_csv)

\* C4: on the same interval and the same prototypes, the two importers'
\* create_interval_node give the same location, rotation and scale (stated
\* here for the intervals whose end points differ, C6 being about the others).
C4_SameGeometry ==
    (JsonPlaced /\ CsvPlaced /\ intv.alpha.co # intv.omega.co) =>
        /\ node_json.value.location = node_csv.value.location
        /\ node_json.value.rotation_quaternion = node_csv.value.rotation_quaternion
        /\ node_json.value.scale = node_csv.value.scale

\* The length the CSV importer puts on the track axis.
InsetLength ==
    IF intv.type = "Push"
    THEN SpanLength - 2 * prototype_scene["Joint"].scale[1]
    ELSE SpanLength

\* C5: in the CSV importer the track axis is scaled by the span length less
\* twice the x scale of the "Joint" prototype when the type is "Push", and
\* by the span length for every other type; the stiffness plays no part.
C5_StrutInset ==
    CsvPlaced =>
        LET proto == prototype_scene[intv.type]
            k == AxisNumber(proto.track_axis)
        IN node_csv.value.scale[k] = proto.scale[k] * InsetLength

\* A "Push" of span 8 along y between joints of radius 1: 6 on the y axis.
C5_Witness ==
    /\ CsvPlaced
    /\ intv.type = "Push"
    /\ intv.alpha.co = <<0, 0, 0>> /\ intv.omega.co = <<0, 8, 0>>
    /\ prototype_scene["Push"] = [track_axis |-> "POS_Y", scale |-> <<1, 1, 1>>]
    /\ prototype_scene["Joint"].scale[1] = 1
    /\ node_csv.value.scale[2] = 6

\* C6: an interval whose end points coincide is not placed: create_interval_node
\* raises instead of returning an object.
C6_DegenerateSpanFails ==
    /\ (node_json.error # "idle" /\ intv.alpha.co = intv.omega.co) => ~IsOk(node_json)
    /\ (node_csv.error # "idle" /\ intv.alpha.co = intv.omega.co) => ~IsOk(node_csv)

\* The scale one importer's node must have on axis k, the track axis taking
\* effective_length and the other two the diameter coefficient.
ExpectedScale(k, effective_length) ==
    LET proto == prototype_scene[intv.type]
        coeff == Root(intv.stiffness) * 200
    IN IF k = AxisNumber(proto.track_axis)
       THEN proto.scale[k] * effective_length
       ELSE proto.scale[k] * coeff

\* C7: the placed object's scale is, per axis, the prototype's scale times
\* sqrt(stiffness) * 200 on the two axes across the track axis and times the
\* effective length on the track axis (the span length in the JSON importer,
\* the inset length in the CSV importer).
C7_ScaleSeparation ==
    /\ JsonPlaced =>
           \A k \in 1..3 : node_json.value.scale[k] = ExpectedScale(k, SpanLength)
    /\ CsvPlaced =>
           \A k \in 1..3 : node_csv.value.scale[k] = ExpectedScale(k, InsetLength)

\* Stiffness 4, track axis z, unit prototype, span 8 along z: (400, 400, 8).
C7_Witness ==
    /\ JsonPlaced
    /\ intv.stiffness = 4
    /\ prototype_scene[intv.type] = [track_axis |-> "POS_Z", scale |-> <<1, 1, 1>>]
    /\ intv.alpha.co = <<0, 0, 0>> /\ intv.omega.co = <<0, 0, 8>>
    /\ node_json.value.scale = <<400, 400, 8>>

OneHot(v) ==
    \E k \in 1..3 : v[k] = 1 /\ \A h \in (1..3) \ {k} : v[h] = 0

\* C8: track_axis_to_vector raises for every track axis but POS_X, POS_Y and
\* POS_Z, and returns a vector with one component 1 and two 0 for these; a
\* placement that went through had such a track axis.
C8_TrackAxis ==
    intv.type \in DOMAIN prototype_scene =>
        LET axis == prototype_scene[intv.type].track_axis
            v == track_axis_to_vector(axis)
        IN /\ axis \notin PositiveAxes => v.error = "ValueError"
           /\ IsOk(v) => OneHot(v.value)
           /\ node_json.error # "idle" =>
                  /\ IsOk(node_json) => IsOk(v) /\ OneHot(v.value)
                  /\ axis \notin PositiveAxes => node_json.error = "ValueError"
           /\ node_csv.error # "idle" =>
                  /\ IsOk(node_csv) => IsOk(v) /\ OneHot(v.value)
                  /\ axis \notin PositiveAxes => node_csv.error = "ValueError"

\* A placement that raised on the track axis NEG_X of the prototype.
C8_Witness ==
    /\ intv.type \in DOMAIN prototype_scene
    /\ prototype_scene[intv.type].track_axis = "NEG_X"
    /\ intv.stiffness = 4
    /\ node_csv.error = "ValueError"
    /\ node_json.error = "ValueError"

\* ----------------------------------------------- specification: importing

\* A collection's name: its words, and the number Blender appends to keep
\* names unique (0: none, 1: ".001").
PretenstName(pretenst_name, suffix) ==
    [parts |-> <<"Pretenst", pretenst_name>>, suffix |-> suffix]

\* name.startswith("Pretenst")
startswith_pretenst(name) == name.parts[1] = "Pretenst"

\* bpy.data.collections.new(name=f"Pretenst: {pretenst_name}"): the name
\* gets the first suffix no collection of that name has yet.
collections_new(sc, pretenst_name) ==
    LET taken == {sc[k].name.suffix :
                      k \in {h \in 1..Len(sc) :
                                 sc[h].name.parts = <<"Pretenst", pretenst_name>>}}
        suffix == CHOOSE n \in 0..Len(sc) :
                      n \notin taken /\ \A m \in 0..(n - 1) : m \in taken
    IN [name |-> PretenstName(pretenst_name, suffix), objects |-> <<>>]

IsUserCollection(c) == ~startswith_pretenst(c.name)

\* The scene after the collections whose name starts with "Pretenst", and
\* their objects, were removed.
clean_main_scene(sc) == SelectSeq(sc, IsUserCollection)

\* The two loops of the import over the nodes' results rs (the intervals',
\* then the joints'): every node before the first exception is linked.
link_nodes(rs) ==
    IF \A k \in 1..Len(rs) : IsOk(rs[k])
    THEN [error |-> "none", objects |-> [k \in 1..Len(rs) |-> rs[k].value]]
    ELSE LET f == CHOOSE k \in 1..Len(rs) :
                      ~IsOk(rs[k]) /\ \A h \in 1..(k - 1) : IsOk(rs[h])
         IN [error |-> rs[f].error, objects |-> [k \in 1..(f - 1) |-> rs[k].value]]

\* clean_main_scene(main_scene); main_scene.collection.children.link(collection);
\* then the nodes are linked one by one.
replace_scene(sc, collection, placed) ==
    Append(clean_main_scene(sc),
           [name |-> collection.name, objects |-> placed.objects])

\* The import once load has returned or raised l, the nodes' results being
\* rs: [scene, report] after the handler returned or raised.  A load that
\* raised leaves the scene alone.
import_loaded(l, pretenst_name, sc, rs) ==
    IF ~IsOk(l) THEN [scene |-> sc, report |-> [error |-> l.error, value |-> <<>>]]
    ELSE
    LET placed == link_nodes(rs) IN
    [scene |-> replace_scene(sc, collections_new(sc, pretenst_name), placed),
     report |-> [error |-> placed.error,
                 value |-> [intervals |-> Len(l.value.intervals),
                            joints |-> Len(l.value.joints)]]]

\* for interval in intervals: create_interval_node(...); for joint in joints:
\* create_joint_node(...), in the JSON importer.
json_nodes(l, objects) ==
    IF ~IsOk(l) THEN <<>>
    ELSE [k \in 1..Len(l.value.intervals) |->
              create_interval_node_json(l.value.intervals[k], objects)]
         \o [k \in 1..Len(l.value.joints) |->
                 create_joint_node(l.value.joints[k], objects)]

\* The same loops in the CSV importer.
csv_nodes(l, objects) ==
    IF ~IsOk(l) THEN <<>>
    ELSE [k \in 1..Len(l.value.intervals) |->
              create_interval_node_csv(l.value.intervals[k], objects)]
         \o [k \in 1..Len(l.value.joints) |->
                 create_joint_node(l.value.joints[k], objects)]

do_import_json_loaded(l, pretenst_name, sc, objects) ==
    import_loaded(l, pretenst_name, sc, json_nodes(l, objects))

\* The whole of do_import_pretenst_json.
do_import_pretenst_json(file, sc, objects) ==
    do_import_json_loaded(load_pretenst_from_json(file), file.name, sc, objects)

do_import_csv_loaded(l, pretenst_name, sc, objects) ==
    import_loaded(l, pretenst_name, sc, csv_nodes(l, objects))

\* The whole of do_import_pretenst_csv.
do_import_pretenst_csv(dir, sc, objects) ==
    do_import_csv_loaded(load_pretenst_from_csv(dir), dir.name, sc, objects)

\* The files the user can pick: two names, joints 1 at (0,0,0) and 2 at
\* (6,8,0), and interval rows of a "Push", of the unknown type "Bow" and of
\* a "Pull" that refers to a joint 9.
PretenstNames == {"lander", "tower"}

ImportJointRows ==
    {[index |-> 1, x |-> 0, y |-> 0, z |-> 0], [index |-> 2, x |-> 6, y |-> 8, z |-> 0]}

ImportIntervalRows ==
    {[joints |-> <<1, 2>>, type |-> "Push", stiffness |-> 4, index |-> 7],
     [joints |-> <<2, 1>>, type |-> "Bow", stiffness |-> 4, index |-> 7],
     [joints |-> <<2, 9>>, type |-> "Pull", stiffness |-> 4, index |-> 7]}

ImportJsonFiles ==
    {[format |-> "json", name |-> n, joints |-> js, intervals |-> is] :
         n \in PretenstNames,
         js \in SeqsUpTo(ImportJointRows, MaxJoints),
         is \in SeqsUpTo(ImportIntervalRows, MaxIntervals)}

\* The same structure as joints.csv and intervals.csv in a directory.
CsvDirectoryOf(file) ==
    [format |-> "csv",
     name |-> file.name,
     joints |-> [k \in 1..Len(file.joints) |->
                     LET j == file.joints[k]
                     IN [index |-> IntText(j.index), x |-> NumberCell(j.x),
                         y |-> NumberCell(j.y), z |-> NumberCell(j.z)]],
     intervals |-> [k \in 1..Len(file.intervals) |->
                        LET i == file.intervals[k]
                        IN [joints |-> JointsCell(i.joints[1], i.joints[2], "formula"),
                            type |-> i.type,
                            elasticity |-> NumberCell(i.stiffness),
                            index |-> IntText(i.index)]]]

ImportCsvDirectories == {CsvDirectoryOf(f) : f \in ImportJsonFiles}

\* Prototype scenes: a sound one, one whose "Push" tracks NEG_X, and one
\* without the "Joint" prototype.
ImportPrototypeScenes ==
    LET joint == [track_axis |-> "POS_Y", scale |-> <<1, 1, 1>>]
        push == [track_axis |-> "POS_X", scale |-> <<1, 1, 1>>]
        pull == [track_axis |-> "POS_Z", scale |-> <<1, 1, 1>>]
    IN {("Joint" :> joint) @@ ("Push" :> push) @@ ("Pull" :> pull),
        ("Joint" :> joint) @@ ("Push" :> [push EXCEPT !.track_axis = "NEG_X"])
            @@ ("Pull" :> pull),
        ("Push" :> push) @@ ("Pull" :> pull)}

\* The main scene of a new Blender file: the user's own collection.
InitialScene ==
    <<[name |-> [parts |-> <<"Collection">>, suffix |-> 0],
       objects |-> <<[name |-> <<"Cube">>]>>]>>

Init ==
    /\ scene = InitialScene
    /\ report = Idle
    /\ prototype_scene \in ImportPrototypeScenes
    /\ source = Idle /\ loaded = Idle
    /\ intv = Idle /\ node_json = Idle /\ node_csv = Idle
    /\ interval_csv = Idle /\ decoded = Idle

DoImportJson ==
    \E file \in ImportJsonFiles :
        LET r == do_import_pretenst_json(file, scene, prototype_scene) IN
        /\ scene' = r.scene
        /\ report' = r.report
        /\ UNCHANGED <<source, loaded, intv, prototype_scene, node_json, node_csv,
                       interval_csv, decoded>>

DoImportCsv ==
    \E dir \in ImportCsvDirectories :
        LET r == do_import_pretenst_csv(dir, scene, prototype_scene) IN
        /\ scene' = r.scene
        /\ report' = r.report
        /\ UNCHANGED <<source, loaded, intv, prototype_scene, node_json, node_csv,
                       interval_csv, decoded>>

Next == DoImportJson \/ DoImportCsv

Spec == Init /\ [][Next]_vars

PretenstCollections(sc) == SelectSeq(sc, LAMBDA c : startswith_pretenst(c.name))

\* C3: an import attempt leaves the main scene with the Pretenst collections
\* it had, or with exactly one Pretenst collection that holds one object for
\* every interval and every joint that was loaded.
C3_AtomicReplace ==
    [][\/ PretenstCollections(scene') = PretenstCollections(scene)
       \/ /\ Len(PretenstCollections(scene')) = 1
          /\ IsOk(report')
          /\ Len(PretenstCollections(scene')[1].objects)
                 = report'.value.intervals + report'.value.joints]_vars

====
